---- MODULE Spec2Model ----
(***************************************************************************)
(* Model of the budget package: planned items (PlannedExpense,             *)
(* PlannedIncome), the CalendarTime recurrence, the _BudgetRow codec and   *)
(* its validation, and the Budget aggregate with its CSV export / import.  *)
(*                                                                         *)
(* Python values are modelled as follows.                                  *)
(*   float          a reduced fraction [n, d] with d > 0; NaN is [0, 0]    *)
(*   None           PyNone                                                 *)
(*   str | None     PyNone or PyStr(s)                                     *)
(*   bool           PyBool(b)                                              *)
(*   an exception   a result record whose status is the exception's name  *)
(*   a csv row      a function from column names to strings                *)
(***************************************************************************)
EXTENDS Integers, Sequences, FiniteSets, TLC

VARIABLES item, row, budget, file, ret

vars == <<item, row, budget, file, ret>>

---------------------------------------------------------------------------
(* Bounds of the model *)

\* largest CalendarTime value the inputs use
MaxValue == 2
\* largest number of entries handed to Budget(...)
MaxEntries == 3

---------------------------------------------------------------------------
(* Python values *)

PyNone == [none |-> TRUE]
PyStr(s) == [str |-> s]
PyBool(b) == [bool |-> b]

Ok(v) == [status |-> "ok", val |-> v]
Raise(exc, detail) == [status |-> exc, val |-> PyStr(detail)]

---------------------------------------------------------------------------
(* float arithmetic, exact *)

RECURSIVE GCD(_, _)
GCD(a, b) == IF b = 0 THEN a ELSE GCD(b, a % b)

Abs(x) == IF x < 0 THEN -x ELSE x

NaN == [n |-> 0, d |-> 0]
IsNaN(a) == a.d = 0

Rat(n, d) ==
    LET g == GCD(Abs(n), d)
    IN  [n |-> n \div g, d |-> d \div g]

Zero == Rat(0, 1)
FromInt(k) == Rat(k, 1)

RNeg(a) == IF IsNaN(a) THEN NaN ELSE [n |-> -a.n, d |-> a.d]
RAdd(a, b) == IF IsNaN(a) \/ IsNaN(b) THEN NaN ELSE Rat(a.n * b.d + b.n * a.d, a.d * b.d)
RSub(a, b) == RAdd(a, RNeg(b))
RAbs(a) == IF IsNaN(a) THEN NaN ELSE [n |-> Abs(a.n), d |-> a.d]
\* comparisons with NaN are all false
RLt(a, b) == ~IsNaN(a) /\ ~IsNaN(b) /\ a.n * b.d < b.n * a.d
RLe(a, b) == ~IsNaN(a) /\ ~IsNaN(b) /\ a.n * b.d <= b.n * a.d
RMax(a, b) == IF RLt(a, b) THEN b ELSE a
\* a / k for an int k > 0
RDivInt(a, k) == IF IsNaN(a) THEN NaN ELSE Rat(a.n, a.d * k)
\* a / b for a float b > 0
RDiv(a, b) == IF IsNaN(a) \/ IsNaN(b) THEN NaN ELSE Rat(a.n * b.d, a.d * b.n)

\* math.isclose(a, b): rel_tol = 1e-09, abs_tol = 0.0
\*   abs(a - b) <= max(rel_tol * max(abs(a), abs(b)), abs_tol)
\* x <= m / 10^9 is decided as x.n * m.d <= (m.n * x.d) \div 10^9
RelTolInv == 1000000000
isclose(a, b) ==
    LET x == RAbs(RSub(a, b))
        m == RMax(RAbs(a), RAbs(b))
    IN  /\ ~IsNaN(x)
        /\ ~IsNaN(m)
        /\ \/ a = b
           \/ x.n * m.d <= (m.n * x.d) \div RelTolInv

---------------------------------------------------------------------------
(* str(int), int(str), f"{x:.2f}", float(str) *)

Digits == <<"0", "1", "2", "3", "4", "5", "6", "7", "8", "9">>

RECURSIVE NatStr(_)
NatStr(k) == IF k < 10 THEN Digits[k + 1] ELSE NatStr(k \div 10) \o Digits[(k % 10) + 1]

\* str(k)
IntStr(k) == IF k < 0 THEN "-" \o NatStr(-k) ELSE NatStr(k)

\* the ints whose text int(s) is tried against
IntTexts == (-1) .. (MaxValue + 1)

\* int(s): ValueError unless s is the text of an integer
ParseInt(s) ==
    IF \E k \in IntTexts : IntStr(k) = s
    THEN Ok(CHOOSE k \in IntTexts : IntStr(k) = s)
    ELSE Raise("ValueError", "invalid literal for int()")

\* a rounded to hundredths, ties to even (the exact value decides)
Cents(a) ==
    LET q == (a.n * 100) \div a.d
        r == (a.n * 100) % a.d
    IN  IF 2 * r > a.d THEN q + 1
        ELSE IF 2 * r = a.d /\ q % 2 = 1 THEN q + 1
        ELSE q

CentsStr(c) ==
    LET m == Abs(c)
    IN  (IF c < 0 THEN "-" ELSE "") \o NatStr(m \div 100) \o "."
            \o Digits[((m % 100) \div 10) + 1] \o Digits[(m % 10) + 1]

\* f"{a:.2f}"
Format2f(a) == IF IsNaN(a) THEN "nan" ELSE CentsStr(Cents(a))

---------------------------------------------------------------------------
(* typedefs: the Literal types, as the sets get_args() returns. The members  *)
(* are those of the data model, as lower-case strings like the default       *)
(* priority "necessity" of PlannedExpense.                                   *)

ExpenseCategory ==
    {"automotive", "charity", "dining", "education", "financial_services", "fun",
     "gifts", "groceries", "home_and_garden", "housing", "legal_services", "lending",
     "loan_payments", "medical", "pets", "rainy_day", "rent", "travel", "utilities",
     "wellbeing"}

ExpensePriority == {"necessity", "negotiable", "luxury"}

IncomeCategory ==
    {"gifts", "investments", "job", "reimbursement", "rent", "sale", "side_hustle"}

CalendarTimeUnits == {"months", "years"}

IncomeOrExpense == {"income", "expense"}

BoolString == {"true", "false"}

\* _BudgetRow.__annotations__.keys(), in declaration order
BudgetRowKeys ==
    <<"income_or_expense", "name", "category", "amount", "currency", "recurrence_value",
      "recurrence_unit", "priority", "savings_goal", "post_tax">>

\* currencies.Currency(code): the codes the library knows, as far as the model uses them
KnownCurrencies == {"USD", "EUR"}

Currency(code) ==
    IF code \in KnownCurrencies
    THEN Ok([money_currency |-> PyStr(code)])
    ELSE Raise("CurrencyDoesNotExist", code)

---------------------------------------------------------------------------
(* CalendarTime and the planned items *)

\* CalendarTime(value, unit), __post_init__ included
CalendarTime(value, unit) ==
    IF value <= 0
    THEN Raise("ValueError", "Calendar time must be at least one!")
    ELSE Ok([value |-> value, unit |-> unit])

\* _PlannedItem.__post_init__
PlannedItem_post_init(amount) ==
    IF RLt(amount, Zero)
    THEN Raise("ValueError", "Amount must be non-negative!")
    ELSE Ok(PyNone)

\* PlannedExpense(name=, amount=, recurrence=, currency=, category=, priority=, savings_goal=)
PlannedExpense(name, amount, recurrence, currency, category, priority, savings_goal) ==
    LET chk == PlannedItem_post_init(amount)
    IN  IF chk.status # "ok" THEN chk
        ELSE Ok([kind |-> "PlannedExpense", name |-> name, amount |-> amount,
                 recurrence |-> recurrence, currency |-> currency, category |-> category,
                 priority |-> priority, savings_goal |-> savings_goal])

\* PlannedIncome(name=, amount=, recurrence=, currency=, category=, post_tax=)
PlannedIncome(name, amount, recurrence, currency, category, post_tax) ==
    LET chk == PlannedItem_post_init(amount)
    IN  IF chk.status # "ok" THEN chk
        ELSE Ok([kind |-> "PlannedIncome", name |-> name, amount |-> amount,
                 recurrence |-> recurrence, currency |-> currency, category |-> category,
                 post_tax |-> post_tax])

isPlannedExpense(entry) == entry.kind = "PlannedExpense"
isPlannedIncome(entry) == entry.kind = "PlannedIncome"

\* variant: the years counted as months
YearsDivisorAsMonths(value) == value

\* the divisor of the "years" branch
YearsDivisor(value) == 12 * value

\* _PlannedItem.get_normalized_monthly_amount
get_normalized_monthly_amount(self) ==
    IF self.recurrence = PyNone
    THEN Ok(self.amount)
    ELSE IF self.recurrence.unit = "years"
         THEN Ok(RDivInt(self.amount, YearsDivisor(self.recurrence.value)))
         ELSE IF self.recurrence.unit = "months"
              THEN Ok(RDivInt(self.amount, self.recurrence.value))
              ELSE Raise("TypeError", "unsupported CalendarTime unit")

---------------------------------------------------------------------------
(* The amounts the inputs use: -0.01, 0, 0.125, 1200, 3000 and NaN *)

AmountInputs == {Rat(-1, 100), Zero, Rat(1, 8), FromInt(1200), FromInt(3000), NaN}

\* the decimal texts float(s) is tried against: those of the amounts above
FloatTexts == {Cents(a) : a \in {x \in AmountInputs : ~IsNaN(x)}}

\* float(s): ValueError unless s is a decimal text or "nan"
ParseFloat(s) ==
    IF s = "nan" THEN Ok(NaN)
    ELSE IF \E c \in FloatTexts : CentsStr(c) = s
         THEN Ok(Rat(CHOOSE c \in FloatTexts : CentsStr(c) = s, 100))
         ELSE Raise("ValueError", "could not convert string to float")

---------------------------------------------------------------------------
(* The _BudgetRow codec *)

\* bool(v) of a bool or a str
Truthy(v) == IF v = PyBool(TRUE) THEN TRUE ELSE IF v = PyBool(FALSE) THEN FALSE ELSE v # PyStr("")

\* the three columns both to_budget_row methods compute alike
CurrencyCell(self) ==
    IF self.currency.money_currency = PyNone THEN "" ELSE self.currency.money_currency.str
RecurrenceValueCell(self) ==
    IF self.recurrence = PyNone THEN "" ELSE IntStr(self.recurrence.value)
\* variant: the unit cell left blank
RecurrenceUnitCellBlank(self) == ""
RecurrenceUnitCell(self) ==
    IF self.recurrence = PyNone THEN "" ELSE self.recurrence.unit

\* the savings_goal cell of an expense row
SavingsGoalCell(self) == IF self.savings_goal = PyNone THEN "" ELSE self.savings_goal.str

\* the post_tax cell of an income row
PostTaxCell(self) == IF Truthy(self.post_tax) THEN "true" ELSE "false"

\* PlannedExpense.to_budget_row
Expense_to_budget_row(self) ==
    [income_or_expense |-> "expense",
     name |-> self.name,
     category |-> self.category,
     amount |-> Format2f(self.amount),
     currency |-> CurrencyCell(self),
     recurrence_value |-> RecurrenceValueCell(self),
     recurrence_unit |-> RecurrenceUnitCell(self),
     priority |-> self.priority,
     savings_goal |-> SavingsGoalCell(self),
     post_tax |-> ""]

\* PlannedIncome.to_budget_row
Income_to_budget_row(self) ==
    [income_or_expense |-> "income",
     name |-> self.name,
     category |-> self.category,
     amount |-> Format2f(self.amount),
     currency |-> CurrencyCell(self),
     recurrence_value |-> RecurrenceValueCell(self),
     recurrence_unit |-> RecurrenceUnitCell(self),
     priority |-> "",
     savings_goal |-> "",
     post_tax |-> PostTaxCell(self)]

\* entry.to_budget_row(), dispatched on the entry's class
to_budget_row(self) ==
    IF isPlannedExpense(self) THEN Expense_to_budget_row(self) ELSE Income_to_budget_row(self)

ParsingError(detail) == Raise("BudgetFileParsingError", detail)

\* the first key of _BudgetRow the row lacks, 0 if none
FirstMissing(r) ==
    LET miss == {i \in 1 .. Len(BudgetRowKeys) : BudgetRowKeys[i] \notin DOMAIN r}
    IN  IF miss = {} THEN 0 ELSE CHOOSE i \in miss : \A j \in miss : i <= j

\* variant: only a unit without a value is refused
RecurrenceCoupledOneWay(r) == ~(r.recurrence_unit # "" /\ r.recurrence_value = "")

\* the recurrence pair check of _validate_budget_row
RecurrenceCoupled(r) ==
    ~ \/ (r.recurrence_unit = "" /\ r.recurrence_value # "")
      \/ (r.recurrence_unit # "" /\ r.recurrence_value = "")

\* the checks of an expense row
ExpenseRowCheck(r) ==
    IF r.category \notin ExpenseCategory THEN ParsingError("unexpected:category")
    ELSE IF r.priority \notin ExpensePriority THEN ParsingError("unexpected:priority")
    ELSE Ok(PyBool(TRUE))

\* the checks of an income row
IncomeRowCheck(r) ==
    IF r.category \notin IncomeCategory THEN ParsingError("unexpected:category")
    ELSE IF r.post_tax \notin BoolString THEN ParsingError("unexpected:post_tax")
    ELSE Ok(PyBool(TRUE))

\* _validate_budget_row
_validate_budget_row(r) ==
    IF FirstMissing(r) # 0 THEN ParsingError("missing:" \o BudgetRowKeys[FirstMissing(r)])
    ELSE IF r.income_or_expense \notin IncomeOrExpense
         THEN ParsingError("unexpected:income_or_expense")
    ELSE IF ~RecurrenceCoupled(r) THEN ParsingError("recurrence pair")
    ELSE IF r.recurrence_unit # "" /\ r.recurrence_unit \notin CalendarTimeUnits
         THEN ParsingError("unexpected:recurrence_unit")
    ELSE IF r.income_or_expense = "expense" THEN ExpenseRowCheck(r)
    ELSE IncomeRowCheck(r)

\* the recurrence both from_budget_row methods rebuild from the row
RowRecurrence(r) ==
    IF r.recurrence_unit = "" THEN Ok(PyNone)
    ELSE LET v == ParseInt(r.recurrence_value)
         IN  IF v.status # "ok" THEN v ELSE CalendarTime(v.val, r.recurrence_unit)

\* PlannedExpense.from_budget_row
Expense_from_budget_row(r) ==
    LET chk == _validate_budget_row(r)
    IN  IF chk.status # "ok" THEN chk
        ELSE LET rec == RowRecurrence(r)
                 amt == ParseFloat(r.amount)
                 cur == Currency(r.currency)
             IN  IF rec.status # "ok" THEN rec
                 ELSE IF amt.status # "ok" THEN amt
                 ELSE IF cur.status # "ok" THEN cur
                 ELSE PlannedExpense(r.name, amt.val, rec.val, cur.val, r.category,
                                     r.priority, PyStr(r.savings_goal))

\* PlannedIncome.from_budget_row
Income_from_budget_row(r) ==
    LET chk == _validate_budget_row(r)
    IN  IF chk.status # "ok" THEN chk
        ELSE LET rec == RowRecurrence(r)
                 amt == ParseFloat(r.amount)
                 cur == Currency(r.currency)
             IN  IF rec.status # "ok" THEN rec
                 ELSE IF amt.status # "ok" THEN amt
                 ELSE IF cur.status # "ok" THEN cur
                 ELSE PlannedIncome(r.name, amt.val, rec.val, cur.val, r.category,
                                    PyStr(r.post_tax))

---------------------------------------------------------------------------
(* Budget *)

\* variant: the allocation is assigned, not added to
AccumulateAssigning(alloc, category, amount) == [alloc EXCEPT ![category] = amount]

\* self.allocations[category] += amount
Accumulate(alloc, category, amount) == [alloc EXCEPT ![category] = RAdd(@, amount)]

\* the loop of Budget.__init__ over the entries, from the allocations so far
RECURSIVE Allocate(_, _)
Allocate(alloc, entries) ==
    IF entries = <<>> THEN Ok(alloc)
    ELSE LET entry == Head(entries)
         IN  IF ~(isPlannedExpense(entry) \/ isPlannedIncome(entry))
             THEN Raise("TypeError", "Entries must be either a PlannedExpense or PlannedIncome")
             ELSE IF isPlannedExpense(entry)
             THEN IF entry.category \notin DOMAIN alloc
                  THEN Raise("KeyError", entry.category)
                  ELSE LET m == get_normalized_monthly_amount(entry)
                       IN  IF m.status # "ok" THEN m
                           ELSE Allocate(Accumulate(alloc, entry.category, m.val),
                                         Tail(entries))
             ELSE Allocate(alloc, Tail(entries))

\* Budget(*entries)
Budget(entries) ==
    LET alloc == Allocate([k \in ExpenseCategory |-> Zero], entries)
    IN  IF alloc.status # "ok" THEN alloc
        ELSE Ok([balance |-> Zero, entries |-> entries, saving_goals |-> <<>>,
                 allocations |-> alloc.val])

\* variant: every entry counted with sign +1
SignedAlwaysPlus(entry, amount) == amount

\* sign * amount of get_monthly_gross
Signed(entry, amount) == IF isPlannedExpense(entry) THEN RNeg(amount) ELSE amount

\* the loop of get_monthly_gross, from the gross so far
RECURSIVE GrossLoop(_, _)
GrossLoop(gross, entries) ==
    IF entries = <<>> THEN Ok(gross)
    ELSE LET entry == Head(entries)
             m == get_normalized_monthly_amount(entry)
         IN  IF m.status # "ok" THEN m
             ELSE GrossLoop(RAdd(gross, Signed(entry, m.val)), Tail(entries))

\* Budget.get_monthly_gross
get_monthly_gross(self) == GrossLoop(Zero, self.entries)

\* what one entry adds to total_expense
ExpenseAmount(entry) == IF isPlannedExpense(entry) THEN entry.amount ELSE Zero

\* the loop of get_total_monthly_expense, from the total so far
RECURSIVE TotalLoop(_, _)
TotalLoop(total, entries) ==
    IF entries = <<>> THEN total
    ELSE TotalLoop(RAdd(total, ExpenseAmount(Head(entries))), Tail(entries))

\* Budget.get_total_monthly_expense
get_total_monthly_expense(self) == Ok(TotalLoop(Zero, self.entries))

\* variant: the precondition with an absolute tolerance of 1200
NoMonthlyExpenseLoose(total) == RLe(RAbs(total), FromInt(1200))

\* the precondition of get_monthly_expenses_as_fraction
NoMonthlyExpense(total) == isclose(total, Zero)

\* Budget.get_monthly_expenses_as_fraction
get_monthly_expenses_as_fraction(self) ==
    LET total == get_total_monthly_expense(self).val
    IN  IF NoMonthlyExpense(total)
        THEN Raise("RuntimeError", "no non-zero monthly expenses registered")
        ELSE Ok([k \in DOMAIN self.allocations |-> RDiv(self.allocations[k], total)])

\* a path is its stem and its suffix; path.endswith(".csv") or path.endswith(".CSV")
IsCsvPath(path) == path.suffix = ".csv" \/ path.suffix = ".CSV"

\* the rows export_file writes under the header, one per entry, in entry order
ExportRows(self) == [i \in 1 .. Len(self.entries) |-> to_budget_row(self.entries[i])]

\* Budget.export_file: the file written, as the rows csv.DictReader reads back
export_file(self, path) ==
    IF ~IsCsvPath(path)
    THEN Raise("ValueError", "The provided path must point to a file ending in '.csv'!")
    ELSE Ok([path |-> path, rows |-> ExportRows(self)])

\* the loop of from_file over the rows, from the entries so far
RECURSIVE ReadRows(_, _)
ReadRows(rows, entries) ==
    IF rows = <<>> THEN Ok(entries)
    ELSE LET r == Head(rows)
         IN  IF "income_or_expense" \notin DOMAIN r THEN Raise("KeyError", "income_or_expense")
             ELSE IF r.income_or_expense = "expense"
             THEN LET e == Expense_from_budget_row(r)
                  IN  IF e.status # "ok" THEN e
                      ELSE ReadRows(Tail(rows), Append(entries, e.val))
             ELSE IF r.income_or_expense = "income"
             THEN LET e == Income_from_budget_row(r)
                  IN  IF e.status # "ok" THEN e
                      ELSE ReadRows(Tail(rows), Append(entries, e.val))
             ELSE ParsingError("unexpected:income_or_expense")

\* what from_file hands to cls(...) once the rows are read: nothing
FromFileArgs(entries) == <<>>

\* Budget.from_file, f being the file system's file (PyNone if there is none)
from_file(path, f) ==
    IF ~IsCsvPath(path)
    THEN Raise("ValueError", "The provided path must point to a file ending in '.csv'!")
    ELSE IF f = PyNone \/ f.path # path THEN Raise("FileNotFoundError", path.stem)
    ELSE LET entries == ReadRows(f.rows, <<>>)
         IN  IF entries.status # "ok" THEN entries
             ELSE Budget(FromFileArgs(entries.val))

---------------------------------------------------------------------------
(* The state: item is the entry the last constructor or decoder call produced   *)
(* (PyNone if it raised), row the last row an entry was encoded to with the     *)
(* entry it came from, budget the Budget under consideration, file the csv file *)
(* on disk, ret the last call with its argument and its outcome.                *)

Ret(op, arg, res) == [op |-> op, arg |-> arg, status |-> res.status, val |-> res.val]

ValOrNone(res) == IF res.status = "ok" THEN res.val ELSE PyNone

Init ==
    /\ item = PyNone
    /\ row = PyNone
    /\ budget = PyNone
    /\ file = PyNone
    /\ ret = Ret("none", PyNone, Ok(PyNone))

---------------------------------------------------------------------------
(* Operations on single entries and rows *)

USD == Currency("USD").val

RecurrenceInputs ==
    {PyNone} \cup {[value |-> v, unit |-> u] : v \in 0 .. MaxValue,
                                               u \in {"months", "years", "weeks"}}

\* recurrence=None or recurrence=CalendarTime(value, unit), as the caller writes it
RecurrenceArg(r) == IF r = PyNone THEN Ok(PyNone) ELSE CalendarTime(r.value, r.unit)

\* a behaviour follows one entry: constructors are called while there is none
NoEntryYet == item = PyNone /\ row = PyNone

ConstructExpense ==
    /\ NoEntryYet
    /\ \E amount \in AmountInputs, r \in RecurrenceInputs, category \in {"housing", "job"},
          priority \in {"necessity", "luxury"}, goal \in {PyNone, PyStr("car")} :
           LET rec == RecurrenceArg(r)
               res == IF rec.status # "ok" THEN rec
                      ELSE PlannedExpense("rent", amount, rec.val, USD, category, priority, goal)
           IN  /\ item' = ValOrNone(res)
               /\ row' = PyNone
               /\ ret' = Ret("PlannedExpense", [amount |-> amount, recurrence |-> r], res)
               /\ UNCHANGED <<budget, file>>

ConstructIncome ==
    /\ NoEntryYet
    /\ \E amount \in AmountInputs, r \in RecurrenceInputs, category \in {"job", "housing"},
          post_tax \in BOOLEAN :
           LET rec == RecurrenceArg(r)
               res == IF rec.status # "ok" THEN rec
                      ELSE PlannedIncome("pay", amount, rec.val, USD, category, PyBool(post_tax))
           IN  /\ item' = ValOrNone(res)
               /\ row' = PyNone
               /\ ret' = Ret("PlannedIncome", [amount |-> amount, recurrence |-> r], res)
               /\ UNCHANGED <<budget, file>>

GetNormalizedMonthlyAmount ==
    /\ item # PyNone
    /\ ret' = Ret("get_normalized_monthly_amount", item, get_normalized_monthly_amount(item))
    /\ UNCHANGED <<item, row, budget, file>>

ToBudgetRow ==
    /\ item # PyNone
    /\ row' = [cells |-> to_budget_row(item), from |-> item]
    /\ ret' = Ret("to_budget_row", item, Ok(to_budget_row(item)))
    /\ UNCHANGED <<item, budget, file>>

\* rows as a csv file not written by export_file may hold them
BaseExpenseRow ==
    [income_or_expense |-> "expense", name |-> "rent", category |-> "housing",
     amount |-> "1200.00", currency |-> "USD", recurrence_value |-> "1",
     recurrence_unit |-> "months", priority |-> "necessity", savings_goal |-> "",
     post_tax |-> ""]

BaseIncomeRow ==
    [income_or_expense |-> "income", name |-> "pay", category |-> "job",
     amount |-> "3000.00", currency |-> "USD", recurrence_value |-> "",
     recurrence_unit |-> "", priority |-> "", savings_goal |-> "", post_tax |-> "true"]

CellChanges ==
    {<<"income_or_expense", "transfer">>, <<"income_or_expense", "Expense">>,
     <<"recurrence_value", "3">>, <<"recurrence_value", "">>, <<"recurrence_value", "0">>,
     <<"recurrence_value", "x">>, <<"recurrence_unit", "">>, <<"recurrence_unit", "months">>,
     <<"recurrence_unit", "weeks">>, <<"category", "job">>, <<"category", "housing">>,
     <<"category", "rent">>, <<"category", "">>, <<"priority", "urgent">>,
     <<"priority", "">>, <<"priority", "luxury">>, <<"post_tax", "yes">>,
     <<"post_tax", "">>, <<"post_tax", "false">>, <<"post_tax", "True">>,
     <<"amount", "-0.01">>, <<"amount", "nan">>, <<"amount", "abc">>,
     <<"currency", "XXX">>, <<"savings_goal", "car">>}

Changed(r, c) == [r EXCEPT ![c[1]] = c[2]]
Without(r, k) == [j \in DOMAIN r \ {k} |-> r[j]]

ForeignRows ==
    LET bases == {BaseExpenseRow, BaseIncomeRow}
        keys == {BudgetRowKeys[i] : i \in 1 .. Len(BudgetRowKeys)}
    IN  bases \cup {Changed(b, c) : b \in bases, c \in CellChanges}
              \cup {Without(b, k) : b \in bases, k \in keys}
              \cup {Without(Without(b, "category"), "post_tax") : b \in bases}

\* the row a call is handed: the row just encoded, or a foreign one while
\* there is no entry yet
RowArgs ==
    IF row # PyNone THEN {row}
    ELSE IF item = PyNone THEN {[cells |-> c, from |-> PyNone] : c \in ForeignRows}
    ELSE {}

ValidateBudgetRow ==
    \E r \in RowArgs :
        /\ ret' = Ret("_validate_budget_row", r, _validate_budget_row(r.cells))
        /\ UNCHANGED <<item, row, budget, file>>

ExpenseFromBudgetRow ==
    \E r \in RowArgs :
        LET res == Expense_from_budget_row(r.cells)
        IN  /\ item' = ValOrNone(res)
            /\ ret' = Ret("PlannedExpense.from_budget_row", r, res)
            /\ UNCHANGED <<row, budget, file>>

IncomeFromBudgetRow ==
    \E r \in RowArgs :
        LET res == Income_from_budget_row(r.cells)
        IN  /\ item' = ValOrNone(res)
            /\ ret' = Ret("PlannedIncome.from_budget_row", r, res)
            /\ UNCHANGED <<row, budget, file>>

NextCodec ==
    \/ ConstructExpense
    \/ ConstructIncome
    \/ GetNormalizedMonthlyAmount
    \/ ToBudgetRow
    \/ ValidateBudgetRow
    \/ ExpenseFromBudgetRow
    \/ IncomeFromBudgetRow

SpecCodec == Init /\ [][NextCodec]_vars

---------------------------------------------------------------------------
(* Operations on a Budget *)

\* the entries Budget(...) is built from: expenses of 1200 with each kind of
\* recurrence, in two categories, an expense of amount 0, one of amount NaN, two
\* incomes, an expense whose category is not an expense category and one whose
\* unit is not supported
BudgetRecurrences ==
    {PyNone, CalendarTime(2, "months").val, CalendarTime(1, "years").val}

BudgetEntries ==
    {PlannedExpense("bill", FromInt(1200), r, USD, "housing", "necessity", PyNone).val :
        r \in BudgetRecurrences}
    \cup {PlannedExpense("flat", FromInt(1200), PyNone, USD, "rent", "necessity", PyNone).val,
          PlannedExpense("free", Zero, PyNone, USD, "housing", "luxury", PyStr("car")).val,
          PlannedExpense("void", NaN, PyNone, USD, "rent", "necessity", PyNone).val,
          PlannedIncome("pay", FromInt(3000), CalendarTime(1, "months").val, USD, "job",
                        PyBool(TRUE)).val,
          PlannedIncome("let", FromInt(3000), CalendarTime(1, "years").val, USD, "rent",
                        PyBool(FALSE)).val,
          PlannedExpense("odd", FromInt(1200), PyNone, USD, "job", "necessity", PyNone).val,
          PlannedExpense("odd", FromInt(1200), CalendarTime(1, "weeks").val, USD, "housing",
                         "necessity", PyNone).val}

EntrySeqs == UNION {[1 .. n -> BudgetEntries] : n \in 0 .. MaxEntries}

Paths == {[stem |-> "budget", suffix |-> ".csv"], [stem |-> "budget", suffix |-> ".txt"]}

\* a behaviour follows one Budget, or one file that export_file did not write
NothingYet == budget = PyNone /\ file = PyNone /\ ret.op = "none"

NewBudget ==
    /\ NothingYet
    /\ \E entries \in EntrySeqs :
           LET res == Budget(entries)
           IN  /\ budget' = ValOrNone(res)
               /\ ret' = Ret("Budget", entries, res)
               /\ UNCHANGED <<item, row, file>>

GetMonthlyGross ==
    /\ budget # PyNone
    /\ ret' = Ret("get_monthly_gross", budget, get_monthly_gross(budget))
    /\ UNCHANGED <<item, row, budget, file>>

GetTotalMonthlyExpense ==
    /\ budget # PyNone
    /\ ret' = Ret("get_total_monthly_expense", budget, get_total_monthly_expense(budget))
    /\ UNCHANGED <<item, row, budget, file>>

GetMonthlyExpensesAsFraction ==
    /\ budget # PyNone
    /\ ret' = Ret("get_monthly_expenses_as_fraction", budget,
                  get_monthly_expenses_as_fraction(budget))
    /\ UNCHANGED <<item, row, budget, file>>

ExportFile ==
    /\ budget # PyNone
    /\ \E path \in Paths :
           LET res == export_file(budget, path)
           IN  /\ file' = IF res.status = "ok"
                          THEN [path |-> path, rows |-> res.val.rows, from |-> budget]
                          ELSE file
               /\ ret' = Ret("export_file", path, res)
               /\ UNCHANGED <<item, row, budget>>

\* a csv file of one foreign row appears on disk
ForeignFile ==
    /\ NothingYet
    /\ \E r \in ForeignRows :
           /\ file' = [path |-> [stem |-> "budget", suffix |-> ".csv"], rows |-> <<r>>,
                       from |-> PyNone]
           /\ UNCHANGED <<item, row, budget, ret>>

FromFile ==
    /\ \E path \in Paths :
           /\ ret' = Ret("from_file", [path |-> path, file |-> file], from_file(path, file))
           /\ UNCHANGED <<item, row, budget, file>>

Next ==
    \/ NewBudget
    \/ GetMonthlyGross
    \/ GetTotalMonthlyExpense
    \/ GetMonthlyExpensesAsFraction
    \/ ExportFile
    \/ ForeignFile
    \/ FromFile

Spec == Init /\ [][Next]_vars

---------------------------------------------------------------------------
(* What the properties below are stated with *)

AllKeys == {BudgetRowKeys[i] : i \in 1 .. Len(BudgetRowKeys)}

One == FromInt(1)

\* a * k for an int k
RTimes(a, k) == IF IsNaN(a) THEN NaN ELSE Rat(a.n * k, a.d)

\* an entry as its type declares it: amount >= 0, recurrence None or a CalendarTime
\* of months or years with value >= 1, category (and priority) of its own sets,
\* savings_goal None or a name, post_tax a bool
ValidEntry(e) ==
    /\ RLe(Zero, e.amount)
    /\ \/ e.recurrence = PyNone
       \/ e.recurrence.value >= 1 /\ e.recurrence.unit \in CalendarTimeUnits
    /\ e.currency \in {[money_currency |-> PyStr(c)] : c \in KnownCurrencies}
    /\ IF e.kind = "PlannedExpense"
       THEN /\ e.category \in ExpenseCategory
            /\ e.priority \in ExpensePriority
            /\ e.savings_goal = PyNone \/ DOMAIN e.savings_goal = {"str"}
       ELSE /\ e.category \in IncomeCategory
            /\ e.post_tax \in {PyBool(TRUE), PyBool(FALSE)}

AllValid(entries) == \A i \in DOMAIN entries : ValidEntry(entries[i])

\* the monthly amount of a valid entry: A, A / v for v months, A / (12 v) for v years
MonthlyOf(e) ==
    IF e.recurrence = PyNone THEN e.amount
    ELSE IF e.recurrence.unit = "months" THEN RDivInt(e.amount, e.recurrence.value)
    ELSE RDivInt(RDivInt(e.amount, 12), e.recurrence.value)

\* the sum of f over the entries at the positions in S
RECURSIVE SumAt(_, _, _)
SumAt(f(_), entries, S) ==
    IF S = {} THEN Zero
    ELSE LET i == CHOOSE j \in S : TRUE
         IN  RAdd(f(entries[i]), SumAt(f, entries, S \ {i}))

RawAmount(e) == e.amount

ExpensesAt(entries) == {i \in DOMAIN entries : entries[i].kind = "PlannedExpense"}
IncomesAt(entries) == {i \in DOMAIN entries : entries[i].kind = "PlannedIncome"}
ExpensesOf(entries, c) == {i \in ExpensesAt(entries) : entries[i].category = c}

\* the total raw monthly expense of the entries
RawExpenseTotal(entries) == SumAt(RawAmount, entries, ExpensesAt(entries))

\* the sum of the values of a mapping over the keys in S
RECURSIVE SumValues(_, _)
SumValues(m, S) ==
    IF S = {} THEN Zero
    ELSE LET k == CHOOSE j \in S : TRUE
         IN  RAdd(m[k], SumValues(m, S \ {k}))

---------------------------------------------------------------------------
(* Properties of the Budget, under Spec *)

\* C1: a Budget that from_file reads from the file a Budget exported to the same
\* .csv path has that Budget's entries, in the same number and order.
\* The code returns an empty Budget, so this is violated.
C1_ExportImportRoundTrip ==
    (/\ ret.op = "from_file"
     /\ ret.arg.file # PyNone
     /\ ret.arg.file.from # PyNone
     /\ ret.arg.path = ret.arg.file.path
     /\ AllValid(ret.arg.file.from.entries))
    => /\ ret.status = "ok"
       /\ ret.val.entries = ret.arg.file.from.entries

\* C3: a Budget built from valid entries has one allocation per expense category,
\* none negative, each the sum of the monthly amounts of exactly the expenses of
\* that category.
C3_Allocations ==
    (budget # PyNone /\ AllValid(budget.entries))
    => /\ DOMAIN budget.allocations = ExpenseCategory
       /\ \A c \in ExpenseCategory :
            /\ RLe(Zero, budget.allocations[c])
            /\ budget.allocations[c]
                 = SumAt(MonthlyOf, budget.entries, ExpensesOf(budget.entries, c))

\* C3 witness: two housing expenses of different recurrence (1200 every 2 months,
\* 1200 a year) and an income of category rent: housing is 700, rent stays 0
C3_Witness ==
    /\ budget # PyNone
    /\ AllValid(budget.entries)
    /\ Len(budget.entries) = 3
    /\ budget.allocations["housing"] = FromInt(700)
    /\ budget.allocations["rent"] = Zero
    /\ \E i \in DOMAIN budget.entries :
         budget.entries[i].kind = "PlannedIncome" /\ budget.entries[i].category = "rent"

\* C4: when the total raw monthly expense is greater than zero, the fractions
\* sum to 1, whatever the recurrences. The allocations are normalized and the
\* total is not, so this is violated by any expense spanning more than a month.
C4_FractionsSumToOne ==
    (/\ ret.op = "get_monthly_expenses_as_fraction"
     /\ AllValid(ret.arg.entries)
     /\ RLt(Zero, RawExpenseTotal(ret.arg.entries)))
    => /\ ret.status = "ok"
       /\ SumValues(ret.val, ExpenseCategory) = One

\* C5: get_monthly_expenses_as_fraction raises RuntimeError exactly when the total
\* raw monthly expense is zero, and otherwise returns one fraction per category.
C5_FractionPrecondition ==
    ret.op = "get_monthly_expenses_as_fraction"
    => /\ ret.status \in {"ok", "RuntimeError"}
       /\ ret.status = "RuntimeError" <=> RawExpenseTotal(ret.arg.entries) = Zero
       /\ RLt(Zero, RawExpenseTotal(ret.arg.entries))
            => ret.status = "ok" /\ DOMAIN ret.val = ExpenseCategory

\* C5 witness: the call raised on a Budget whose only expenses have amount 0
C5_Witness ==
    /\ ret.op = "get_monthly_expenses_as_fraction"
    /\ ret.status = "RuntimeError"
    /\ ExpensesAt(ret.arg.entries) # {}

\* C6: get_monthly_gross is the monthly incomes minus the monthly expenses, and
\* the Budget is after the call what it was before.
C6_MonthlyGross ==
    ret.op = "get_monthly_gross"
    => /\ ret.status = "ok"
       /\ ret.val = RSub(SumAt(MonthlyOf, ret.arg.entries, IncomesAt(ret.arg.entries)),
                         SumAt(MonthlyOf, ret.arg.entries, ExpensesAt(ret.arg.entries)))
       /\ budget = ret.arg

\* C6 witness: an income of 3000 a month and an expense of 1200 give 1800
C6_Witness ==
    /\ ret.op = "get_monthly_gross"
    /\ Len(ret.arg.entries) = 2
    /\ IncomesAt(ret.arg.entries) # {}
    /\ ExpensesAt(ret.arg.entries) # {}
    /\ ret.val = FromInt(1800)

---------------------------------------------------------------------------
(* Properties of the entries and of the row codec, under SpecCodec *)

FromBudgetRowOps == {"PlannedExpense.from_budget_row", "PlannedIncome.from_budget_row"}

\* the from_budget_row of the entry's own class
DecoderOf(e) ==
    IF e.kind = "PlannedExpense" THEN "PlannedExpense.from_budget_row"
    ELSE "PlannedIncome.from_budget_row"

\* C2: decoding the row a valid entry was encoded to, with the from_budget_row of
\* its class, yields an entry equal to it in every field.
\* The code decodes a null savings_goal as "", post_tax as a string, and the
\* amount as rounded to two decimals, so this is violated.
C2_RowRoundTrip ==
    (/\ ret.op \in FromBudgetRowOps
     /\ ret.arg.from # PyNone
     /\ ValidEntry(ret.arg.from)
     /\ ret.op = DecoderOf(ret.arg.from))
    => /\ ret.status = "ok"
       /\ ret.val = ret.arg.from

\* C7: the normalized monthly amount is A with no recurrence, A / v for v months,
\* A / (12 v) for v years, and a TypeError for any other unit.
C7_NormalizedMonthlyAmount ==
    ret.op = "get_normalized_monthly_amount"
    => LET e == ret.arg
       IN  IF e.recurrence = PyNone
           THEN ret.status = "ok" /\ ret.val = e.amount
           ELSE IF e.recurrence.unit = "months"
           THEN ret.status = "ok" /\ RTimes(ret.val, e.recurrence.value) = e.amount
           ELSE IF e.recurrence.unit = "years"
           THEN ret.status = "ok" /\ RTimes(ret.val, 12 * e.recurrence.value) = e.amount
           ELSE ret.status = "TypeError"

\* C7 witness: 1200 every 2 years is 50 a month
C7_Witness ==
    /\ ret.op = "get_normalized_monthly_amount"
    /\ ret.arg.recurrence = [value |-> 2, unit |-> "years"]
    /\ ret.arg.amount = FromInt(1200)
    /\ ret.val = FromInt(50)

\* the decoding rules, for a row with every column
BreaksCellRule(r) ==
    \/ r.income_or_expense \notin {"income", "expense"}
    \/ (r.recurrence_value = "") # (r.recurrence_unit = "")
    \/ r.recurrence_unit \notin {"", "months", "years"}
    \/ /\ r.income_or_expense = "expense"
       /\ r.category \notin ExpenseCategory \/ r.priority \notin ExpensePriority
    \/ /\ r.income_or_expense = "income"
       /\ r.category \notin IncomeCategory \/ r.post_tax \notin {"true", "false"}

BreaksRule(r) == IF AllKeys \subseteq DOMAIN r THEN BreaksCellRule(r) ELSE TRUE

\* C8: _validate_budget_row raises BudgetFileParsingError exactly for the rows
\* that break a decoding rule, naming a missing column when there is one, and
\* from_budget_row then raises it too and produces no entry.
C8_RowValidation ==
    /\ ret.op = "_validate_budget_row"
       => /\ ret.status = (IF BreaksRule(ret.arg.cells) THEN "BudgetFileParsingError" ELSE "ok")
          /\ ~(AllKeys \subseteq DOMAIN ret.arg.cells)
               => \E k \in AllKeys \ DOMAIN ret.arg.cells : ret.val = PyStr("missing:" \o k)
    /\ (ret.op \in FromBudgetRowOps /\ BreaksRule(ret.arg.cells))
       => ret.status = "BudgetFileParsingError" /\ item = PyNone

\* C8 witness: recurrence_value "3" with a blank recurrence_unit was refused
C8_Witness ==
    /\ ret.op = "_validate_budget_row"
    /\ AllKeys \subseteq DOMAIN ret.arg.cells
    /\ ret.arg.cells.recurrence_value = "3"
    /\ ret.arg.cells.recurrence_unit = ""
    /\ ret.status = "BudgetFileParsingError"

ConstructorOps == {"PlannedExpense", "PlannedIncome"}

\* C9: every entry there is, constructed or decoded, has amount >= 0 and a
\* recurrence that is None or has value >= 1; a constructor handed a negative
\* amount or a CalendarTime value <= 0 raises ValueError and produces no entry,
\* and amount 0 is accepted.
\* The code accepts the amount NaN, which is not >= 0, so this is violated.
C9_EntriesValidated ==
    /\ item # PyNone
       => /\ RLe(Zero, item.amount)
          /\ item.recurrence = PyNone \/ item.recurrence.value >= 1
    /\ ret.op \in ConstructorOps
       => LET badAmount == RLt(ret.arg.amount, Zero)
              badValue == ret.arg.recurrence # PyNone /\ ret.arg.recurrence.value <= 0
          IN  /\ (badAmount \/ badValue) => (ret.status = "ValueError" /\ item = PyNone)
              /\ (ret.arg.amount = Zero /\ ~badValue) => ret.status = "ok"

\* C10: the row a valid entry is encoded to is accepted by _validate_budget_row:
\* it has all ten columns, the tag of the entry's class, the recurrence cells
\* both blank or both populated, priority for expenses only, post_tax for
\* incomes only.
C10_EncodedRowAccepted ==
    (/\ ret.op = "_validate_budget_row"
     /\ ret.arg.from # PyNone
     /\ ValidEntry(ret.arg.from))
    => LET e == ret.arg.from
           r == ret.arg.cells
       IN  /\ ret.status = "ok"
           /\ DOMAIN r = AllKeys
           /\ r.income_or_expense = (IF e.kind = "PlannedExpense" THEN "expense" ELSE "income")
           /\ IF e.recurrence = PyNone
              THEN r.recurrence_value = "" /\ r.recurrence_unit = ""
              ELSE /\ r.recurrence_value = IntStr(e.recurrence.value)
                   /\ r.recurrence_unit = e.recurrence.unit
           /\ IF e.kind = "PlannedExpense"
              THEN r.priority \in ExpensePriority /\ r.post_tax = ""
              ELSE r.priority = "" /\ r.post_tax \in {"true", "false"}

\* C10 witness: the row of a valid expense recurring every 2 years was accepted
C10_Witness ==
    /\ ret.op = "_validate_budget_row"
    /\ ret.arg.from # PyNone
    /\ ValidEntry(ret.arg.from)
    /\ ret.arg.from.kind = "PlannedExpense"
    /\ ret.arg.cells.recurrence_value = "2"
    /\ ret.arg.cells.recurrence_unit = "years"
    /\ ret.status = "ok"

====
